---- MODULE Spec2Model ----
(***************************************************************************)
(* Model of household/make_json.py: make_json(data_sets, info_cols,        *)
(* version, changes, headers) builds the datapackage.json metadata out of  *)
(* YAML building blocks and writes it to disk.                             *)
(*                                                                         *)
(* Strings.  A Python string is modelled as the non-empty sequence of its  *)
(* "_"-separated segments: "DE_KN_residential1" is                         *)
(* <<"DE", "KN", "residential1">>, "" is <<"">>.  Then a + "_" + b is the  *)
(* concatenation a \o b, and two different (household, feed) pairs may     *)
(* format to the same field name, as in Python.                            *)
(*                                                                         *)
(* YAML text.  The YAML strings the function accumulates (resource_list,   *)
(* source_list, field_list, schemas_dict) are sequences of chunks, one     *)
(* chunk per formatted template; a chunk records the template and the      *)
(* values substituted into it.  yaml.load is modelled by Load* operators   *)
(* that build what the concatenated text parses to; yaml.load(text) is the *)
(* one-argument call of PyYAML before 6.0.                                 *)
(***************************************************************************)
EXTENDS Integers, Sequences, FiniteSets, TLC

\* ------------------------------------------------------------- bounds
MaxCols == 2    \* columns per table
MaxRuns == 2    \* calls of make_json with the same arguments

\* ------------------------------------------------------------- strings
T(s) == <<s>>

Join(a, b) == a \o b

\* A value that may be Python's None: yaml.load of an empty string.
None == [none |-> TRUE, value |-> <<>>]

Some(v) == [none |-> FALSE, value |-> v]

\* A local that is not assigned yet.
Unset == [unset |-> TRUE]

\* ------------------------------------------------------------- templates
\* The lookup tables, as yaml.load parses them (lines 218, 221, 224, 227).
web_template == (T("CoSSMic") :> T("http://cossmic.eu/"))

region_template == (<<"DE", "konstanz">> :> T("Germany, Konstanz"))

type_template ==
  (<<"residential", "4-person", "suburb", "building">> :>
     T("Residential building, located in the suburban area in a four-person household"))

descriptions_template ==
     (<<"grid", "import">> :> T("Energy imported from the public grid in kWh"))
  @@ (<<"grid", "export">> :> T("Energy exported to the public grid in kWh"))
  @@ (T("consumption") :> T("Total household energy consumption in kWh"))
  @@ (T("pv") :> T("Total Photovoltaic energy generation in kWh"))
  @@ (T("ev") :> T("Electric Vehicle charging energy in kWh"))
  @@ (<<"storage", "charge">> :> T("Battery charging energy in kWh"))
  @@ (<<"storage", "discharge">> :> T("Battery discharged energy in kWh"))
  @@ (<<"heat", "pump">> :> T("Heat pump energy consumption in kWh"))
  @@ (<<"circulation", "pump">> :>
        T("Circulation pump energy consumption, circulating the heated water of e.g. boilers in kWh"))
  @@ (T("dishwasher") :> T("Dishwasher energy consumption in kWh"))
  @@ (<<"washing", "machine">> :> T("Washing machine energy consumption in kWh"))
  @@ (T("refrigerator") :> T("Refridgerator energy consumption in kWh"))
  @@ (T("freezer") :> T("Freezer energy consumption in kWh"))
  @@ (T("default") :> T("Energy in kWh"))

\* ------------------------------------------------------------- inputs
\* headers: the level names of the column MultiIndex.
Headers == <<"project", "region", "type", "household", "feed">>

\* info_cols: names of the non-data columns.
InfoCols ==
  [utc |-> <<"utc", "timestamp">>,
   cet |-> <<"cet", "cest", "timestamp">>,
   marker |-> T("interpolated")]

InfoValues == {InfoCols[k] : k \in DOMAIN InfoCols}

CoSSMic == T("CoSSMic")
Konstanz == <<"DE", "konstanz">>
Residential4 == <<"residential", "4-person", "suburb", "building">>
Residential1 == <<"DE", "KN", "residential1">>

\* Column header tuples a table may carry.
InfoCol == <<InfoCols.utc, T(""), T(""), T(""), T("")>>
PvCol == <<CoSSMic, Konstanz, Residential4, Residential1, T("pv")>>
\* Formats to the field name of PvCol; its feed has no description.
SplitCol == <<CoSSMic, Konstanz, Residential4, <<"DE", "KN">>, <<"residential1", "pv">> >>
BadProjectCol == <<T("NoProject"), Konstanz, Residential4, Residential1, T("pv")>>
BadRegionCol == <<CoSSMic, <<"DE", "berlin">>, Residential4, Residential1, T("pv")>>
BadTypeCol == <<CoSSMic, Konstanz, T("industrial"), Residential1, T("pv")>>

Columns == {InfoCol, PvCol, SplitCol, BadProjectCol, BadRegionCol, BadTypeCol}

Tables == UNION {[1..n -> Columns] : n \in 0..MaxCols}

ResKeys == {T("15min"), T("60min")}

\* data_sets.items(): the dict in iteration order, its keys distinct.
DataSets ==
  {<<>>}
  \cup {<<[res_key |-> k, columns |-> t]>> : k \in ResKeys, t \in Tables}
  \cup {d \in {<<[res_key |-> k1, columns |-> t1], [res_key |-> k2, columns |-> t2]>> :
                   k1 \in ResKeys, k2 \in ResKeys, t1 \in Tables, t2 \in Tables} :
          d[1].res_key # d[2].res_key}

Versions == {T("2017-11-10")}

Changes == {T("Initial release")}

\* What datapackage.json may hold before the first call.
StaleDoc == [name |-> <<"stale">>]

InitialFiles == {[exists |-> FALSE, content |-> <<>>],
                 [exists |-> TRUE, content |-> <<StaleDoc>>]}

VARIABLES data_sets, version, changes,
          pc, i, j, resource_list, source_list, schemas_dict, field_list,
          sources, metadata, error, file, file_at_start, run, written

vars == <<data_sets, version, changes, pc, i, j, resource_list, source_list,
          schemas_dict, field_list, sources, metadata, error, file,
          file_at_start, run, written>>

inputs == <<data_sets, version, changes>>

\* ------------------------------------------------------------- formatting
\* The initial resource_list (lines 196-200): the fixed xlsx entry.
resource_head == <<[t |-> "xlsx"]>>

\* A resource entry with the resolution key written into the template.
resource_template_fixed(res_key) == [t |-> "resource", res_key |-> T("15min")]

\* resource_template.format(res_key=res_key), lines 66-90 and 208-209.
resource_template(res_key) == [t |-> "resource", res_key |-> res_key]

\* schemas_template.format(res_key=res_key, **info_cols), lines 92-110, 236-237.
schemas_template(res_key, info_cols) ==
  [t |-> "schema", res_key |-> res_key, utc |-> info_cols.utc,
   cet |-> info_cols.cet, marker |-> info_cols.marker]

\* A field entry with household and feed exchanged.
field_template_swapped(h) ==
  [t |-> "field", household |-> h.feed, feed |-> h.household,
   description |-> h.description, project |-> h.project, web |-> h.web,
   type |-> h.type, region |-> h.region]

\* field_template.format(**h), lines 112-124 and 233.
field_template(h) ==
  [t |-> "field", household |-> h.household, feed |-> h.feed,
   description |-> h.description, project |-> h.project, web |-> h.web,
   type |-> h.type, region |-> h.region]

\* A source entry with web and type exchanged.
source_template_swapped(h) ==
  [t |-> "source", project |-> h.project, web |-> h.type, type |-> h.web]

\* source_template.format(**h), lines 60-64 and 234.
source_template(h) ==
  [t |-> "source", project |-> h.project, web |-> h.web, type |-> h.type]

\* ------------------------------------------------------------- column step
\* col[0] in info_cols.values(), line 214.
IsInfo(col) == col[1] \in InfoValues

\* h = {k: v for k, v in zip(headers, col)}, line 216.
Zip(headers, col) ==
  [k \in {headers[n] : n \in 1..Len(headers)} |->
     col[CHOOSE n \in 1..Len(headers) : headers[n] = k]]

\* The three lookups that raise KeyError on a missing key, lines 218-225.
Resolves(h0) ==
  /\ h0.project \in DOMAIN web_template
  /\ h0.region \in DOMAIN region_template
  /\ h0.type \in DOMAIN type_template

\* A fallback that takes the feed code itself as the description.
Description_code(feed) ==
  IF feed \in DOMAIN descriptions_template
    THEN descriptions_template[feed]
    ELSE feed

\* descriptions[h['feed']] with the KeyError fallback, lines 227-231.
Description(feed) ==
  IF feed \in DOMAIN descriptions_template
    THEN descriptions_template[feed]
    ELSE descriptions_template[T("default")]

\* h after lines 216-231, for a column whose lookups resolve.
Lookup(col) ==
  LET h0 == Zip(Headers, col)
  IN  [project |-> h0.project,
       household |-> h0.household,
       feed |-> h0.feed,
       web |-> web_template[h0.project],
       region |-> region_template[h0.region],
       type |-> type_template[h0.type],
       description |-> Description(h0.feed)]

\* ------------------------------------------------------------- yaml.load
\* Plain scalars that YAML resolves to something other than a string.
YamlImplicit ==
     (T("null") :> T("!!null"))
  @@ (T("~") :> T("!!null"))
  @@ (T("true") :> T("!!bool true"))
  @@ (T("false") :> T("!!bool false"))
  @@ (T("yes") :> T("!!bool true"))
  @@ (T("no") :> T("!!bool false"))
  @@ (T("on") :> T("!!bool true"))
  @@ (T("off") :> T("!!bool false"))

YamlPlain(s) == IF s \in DOMAIN YamlImplicit THEN YamlImplicit[s] ELSE s

\* One list item of resource_list, parsed (lines 66-90, 196-200, 250).
LoadResource(c) ==
  IF c.t = "xlsx"
    THEN [mediatype |->
            T("application/vnd.openxmlformats-officedocument.spreadsheetml.sheet"),
          format |-> T("xlsx"),
          path |-> <<"time", "series.xlsx">>]
    ELSE [path |-> <<"household", "data">> \o c.res_key \o T("singleindex.csv"),
          format |-> T("csv"),
          mediatype |-> T("text/csv"),
          encoding |-> T("UTF8"),
          schema |-> YamlPlain(c.res_key),
          dialect |-> [csvddfVersion |-> T("1.0"), delimiter |-> T(","),
                       lineTerminator |-> T("\n"), header |-> TRUE],
          alternative_formats |->
            << [path |-> <<"household", "data">> \o c.res_key \o T("singleindex.csv"),
                stacking |-> T("Singleindex"), format |-> T("csv")],
               [path |-> <<"household", "data.xlsx">>,
                stacking |-> T("Multiindex"), format |-> T("xlsx")],
               [path |-> <<"household", "data">> \o c.res_key \o T("multiindex.csv"),
                stacking |-> T("Multiindex"), format |-> T("csv")],
               [path |-> <<"household", "data">> \o c.res_key \o T("stacked.csv"),
                stacking |-> T("Stacked"), format |-> T("csv")] >>]

\* yaml.load(resource_list), line 250.
LoadResources(text) == [n \in 1..Len(text) |-> LoadResource(text[n])]

\* One list item of source_list, parsed (lines 60-64).
LoadSource(c) ==
  [project |-> YamlPlain(c.project), web |-> YamlPlain(c.web),
   type |-> YamlPlain(c.type)]

\* A parse that yields an empty list for the empty string.
LoadSources_list(text) == Some([n \in 1..Len(text) |-> LoadSource(text[n])])

\* yaml.load(source_list), line 244: the empty string parses to None.
LoadSources(text) ==
  IF text = <<>> THEN None ELSE Some([n \in 1..Len(text) |-> LoadSource(text[n])])

\* One item of a schema's field list, parsed (lines 112-124).
LoadField(c) ==
  [name |-> YamlPlain(Join(c.household, c.feed)),
   description |-> YamlPlain(c.description),
   type |-> T("number (float)"),
   source |-> [project |-> YamlPlain(c.project), web |-> YamlPlain(c.web),
               type |-> YamlPlain(c.type)],
   opsd_properties |-> [Region |-> c.region,
                        Household |-> YamlPlain(c.household),
                        Feed |-> YamlPlain(c.feed)]]

\* The head of one schema, parsed (lines 92-110).
LoadSchemaHead(c) ==
  [primaryKey |-> YamlPlain(c.utc),
   missingValue |-> T(""),
   fields |->
     << [name |-> YamlPlain(c.utc),
         description |-> T("Start of timeperiod in Coordinated Universal Time"),
         type |-> T("datetime"),
         format |-> T("fmt:%Y-%m-%dT%H%M%SZ"),
         opsd_contentfilter |-> TRUE],
        [name |-> YamlPlain(c.cet),
         description |-> T("Start of timeperiod in Central European (Summer-) Time"),
         type |-> T("datetime"),
         format |-> T("fmt:%Y-%m-%dT%H%M%S%z")],
        [name |-> YamlPlain(c.marker),
         description |->
           T("marker to indicate which columns are missing data in source data and has been interpolated (e.g. DE_transnetbw_solar_generation;)"),
         type |-> T("string")] >>]

\* The blocks of schemas_dict in text order: a schemas_template chunk opens
\* a block, and the field chunks that follow it continue its field list.
RECURSIVE SchemaBlocks(_, _)
SchemaBlocks(text, n) ==
  IF n = 0 THEN <<>>
  ELSE LET acc == SchemaBlocks(text, n - 1)
           c == text[n]
       IN  IF c.t = "schema"
             THEN Append(acc, [key |-> YamlPlain(c.res_key), value |-> LoadSchemaHead(c)])
             ELSE [acc EXCEPT ![Len(acc)].value.fields = Append(@, LoadField(c))]

\* The mapping built from the blocks: a repeated key keeps its first place
\* and takes the last value.
RECURSIVE SchemaMapping(_, _)
SchemaMapping(blocks, n) ==
  IF n = 0 THEN <<>>
  ELSE LET acc == SchemaMapping(blocks, n - 1)
           b == blocks[n]
       IN  IF \E m \in 1..Len(acc) : acc[m].key = b.key
             THEN [m \in 1..Len(acc) |-> IF acc[m].key = b.key THEN b ELSE acc[m]]
             ELSE Append(acc, b)

\* yaml.load(schemas_dict), line 251.
LoadSchemas(text) ==
  IF text = <<>> THEN None
  ELSE LET blocks == SchemaBlocks(text, Len(text))
       IN  Some(SchemaMapping(blocks, Len(blocks)))

\* ------------------------------------------------------------- dedup
\* set(tuple(entry.items()) for entry in ...), lines 242-244.
Dedup(entries) == {entries[n] : n \in 1..Len(entries)}

\* The lists a set may be iterated into: every order, each element once.
Orders(S) ==
  {q \in [1..Cardinality(S) -> S] : \A a \in S : \E n \in 1..Cardinality(S) : q[n] = a}

\* A source list that keeps every emitted entry.
DedupList_keep(entries) == {entries}

\* [dict(tupleized) for tupleized in set(...)], lines 242-244: the lists
\* the comprehension may produce.
DedupList(entries) == Orders(Dedup(entries))

\* ------------------------------------------------------------- document
\* yaml.load(metadata_head.format(version=version, changes=changes)),
\* lines 15-58 and 247-248.
metadata_head(v, c) ==
  [name |-> <<"opsd", "household", "data">>,
   title |-> T("Household Data"),
   description |->
     T("Detailed household load and solar in minutely to hourly resolution"),
   long_description |-> T("This data package contains different kinds of timeseries data ..."),
   documentation |->
     <<"https://github.com/isc-konstanz/household", "data/blob/master/main.ipynb">>,
   version |-> v,
   last_changes |-> c,
   keywords |-> <<T("Open Power System Data"), T("CoSSMic"), T("household data"),
                  T("time series"), T("power systems"), T("in-feed"),
                  T("renewables"), T("solar"), T("power consumption")>>,
   geographical_scope |-> T("Southern Germany"),
   contributors |-> <<[web |-> T("http://isc-konstanz.de/"),
                       name |-> T("Adrian Minde"),
                       email |-> T("adrian.minde@isc-konstanz.de")]>>]

\* Lines 247-251: the head with sources, resources and schemas added.
Document(v, c, srcs, resources, schemas) ==
  LET head == metadata_head(v, c)
  IN  [name |-> head.name,
       title |-> head.title,
       description |-> head.description,
       long_description |-> head.long_description,
       documentation |-> head.documentation,
       version |-> head.version,
       last_changes |-> head.last_changes,
       keywords |-> head.keywords,
       geographical_scope |-> head.geographical_scope,
       contributors |-> head.contributors,
       sources |-> srcs,
       resources |-> LoadResources(resources),
       schemas |-> LoadSchemas(schemas)]

\* json.dumps(metadata, indent=4, separators=(',', ': ')), line 254.
JsonDumps(m) == [indent |-> 4, value |-> m]

\* A write that appends to what the file holds.
WriteFile_append(old, text) == [exists |-> TRUE, content |-> old.content \o <<text>>]

\* open('datapackage.json', 'w') and f.write, lines 255-256.
WriteFile(old, text) == [exists |-> TRUE, content |-> <<text>>]

\* ------------------------------------------------------------- make_json
Init ==
  /\ data_sets \in DataSets
  /\ version \in Versions
  /\ changes \in Changes
  /\ file \in InitialFiles
  /\ file_at_start = file
  /\ pc = "res_loop"
  /\ i = 0
  /\ j = 0
  /\ resource_list = resource_head
  /\ source_list = <<>>
  /\ schemas_dict = <<>>
  /\ field_list = <<>>
  /\ sources = <<>>
  /\ metadata = Unset
  /\ error = "none"
  /\ run = 1
  /\ written = <<>>

\* A loop head that does not reset field_list.
StartResKey_keep ==
  /\ pc = "res_loop"
  /\ i < Len(data_sets)
  /\ i' = i + 1
  /\ j' = 0
  /\ resource_list' = Append(resource_list, resource_template(data_sets[i + 1].res_key))
  /\ pc' = "col_loop"
  /\ UNCHANGED <<inputs, source_list, schemas_dict, field_list, sources, metadata,
                 error, file, file_at_start, run, written>>

\* Lines 204-209: the next resolution key; its resource entry is appended.
StartResKey ==
  /\ pc = "res_loop"
  /\ i < Len(data_sets)
  /\ i' = i + 1
  /\ j' = 0
  /\ field_list' = <<>>
  /\ resource_list' = Append(resource_list, resource_template(data_sets[i + 1].res_key))
  /\ pc' = "col_loop"
  /\ UNCHANGED <<inputs, source_list, schemas_dict, sources, metadata, error,
                 file, file_at_start, run, written>>

\* Lines 213-215: an info column is skipped.
SkipInfoColumn ==
  /\ pc = "col_loop"
  /\ j < Len(data_sets[i].columns)
  /\ IsInfo(data_sets[i].columns[j + 1])
  /\ j' = j + 1
  /\ UNCHANGED <<inputs, pc, i, resource_list, source_list, schemas_dict,
                 field_list, sources, metadata, error, file, file_at_start,
                 run, written>>

\* A column step that puts the new field in front of field_list.
ProcessColumn_front ==
  /\ pc = "col_loop"
  /\ j < Len(data_sets[i].columns)
  /\ LET col == data_sets[i].columns[j + 1]
     IN  /\ ~IsInfo(col)
         /\ Resolves(Zip(Headers, col))
         /\ field_list' = <<field_template(Lookup(col))>> \o field_list
         /\ source_list' = Append(source_list, source_template(Lookup(col)))
  /\ j' = j + 1
  /\ UNCHANGED <<inputs, pc, i, resource_list, schemas_dict, sources, metadata,
                 error, file, file_at_start, run, written>>

\* Lines 216-234: a data column whose lookups resolve adds a field and a source.
ProcessColumn ==
  /\ pc = "col_loop"
  /\ j < Len(data_sets[i].columns)
  /\ LET col == data_sets[i].columns[j + 1]
     IN  /\ ~IsInfo(col)
         /\ Resolves(Zip(Headers, col))
         /\ field_list' = Append(field_list, field_template(Lookup(col)))
         /\ source_list' = Append(source_list, source_template(Lookup(col)))
  /\ j' = j + 1
  /\ UNCHANGED <<inputs, pc, i, resource_list, schemas_dict, sources, metadata,
                 error, file, file_at_start, run, written>>

\* Lines 218-225: a project, region or type code missing from its table
\* raises KeyError; j stays at the columns done before the failing one.
LookupFails ==
  /\ pc = "col_loop"
  /\ j < Len(data_sets[i].columns)
  /\ LET col == data_sets[i].columns[j + 1]
     IN  /\ ~IsInfo(col)
         /\ ~Resolves(Zip(Headers, col))
  /\ pc' = "aborted"
  /\ error' = "KeyError"
  /\ UNCHANGED <<inputs, i, j, resource_list, source_list, schemas_dict,
                 field_list, sources, metadata, file, file_at_start, run, written>>

\* An end of the column loop that also writes what is built so far.
FinishResKey_flush ==
  /\ pc = "col_loop"
  /\ j = Len(data_sets[i].columns)
  /\ schemas_dict' = schemas_dict
                       \o <<schemas_template(data_sets[i].res_key, InfoCols)>>
                       \o field_list
  /\ file' = WriteFile(file, JsonDumps(
                Document(version, changes, <<>>, resource_list, schemas_dict')))
  /\ pc' = "res_loop"
  /\ UNCHANGED <<inputs, i, j, resource_list, source_list, field_list, sources,
                 metadata, error, file_at_start, run, written>>

\* Lines 236-237: the schema of the resolution key, then its fields.
FinishResKey ==
  /\ pc = "col_loop"
  /\ j = Len(data_sets[i].columns)
  /\ schemas_dict' = schemas_dict
                       \o <<schemas_template(data_sets[i].res_key, InfoCols)>>
                       \o field_list
  /\ pc' = "res_loop"
  /\ UNCHANGED <<inputs, i, j, resource_list, source_list, field_list, sources,
                 metadata, error, file, file_at_start, run, written>>

\* Lines 242-244: the sources without duplicates, in the order the set
\* yields them; iterating the None of an empty source_list raises TypeError.
DedupSources ==
  /\ pc = "res_loop"
  /\ i = Len(data_sets)
  /\ IF LoadSources(source_list) = None
       THEN /\ pc' = "aborted"
            /\ error' = "TypeError"
            /\ UNCHANGED sources
       ELSE /\ sources' \in DedupList(LoadSources(source_list).value)
            /\ pc' = "merge"
            /\ UNCHANGED error
  /\ UNCHANGED <<inputs, i, j, resource_list, source_list, schemas_dict,
                 field_list, metadata, file, file_at_start, run, written>>

\* Lines 247-251: the document is put together.
Merge ==
  /\ pc = "merge"
  /\ metadata' = Document(version, changes, sources, resource_list, schemas_dict)
  /\ pc' = "write"
  /\ UNCHANGED <<inputs, i, j, resource_list, source_list, schemas_dict,
                 field_list, sources, error, file, file_at_start, run, written>>

\* Lines 254-258: the document is serialized and written; the call returns.
Write ==
  /\ pc = "write"
  /\ file' = WriteFile(file, JsonDumps(metadata))
  /\ written' = Append(written, file')
  /\ pc' = "done"
  /\ UNCHANGED <<inputs, i, j, resource_list, source_list, schemas_dict,
                 field_list, sources, metadata, error, file_at_start, run>>

\* make_json is called again with the same arguments (lines 195-202).
CallAgain ==
  /\ pc = "done"
  /\ run < MaxRuns
  /\ run' = run + 1
  /\ file_at_start' = file
  /\ pc' = "res_loop"
  /\ i' = 0
  /\ j' = 0
  /\ resource_list' = resource_head
  /\ source_list' = <<>>
  /\ schemas_dict' = <<>>
  /\ field_list' = <<>>
  /\ sources' = <<>>
  /\ metadata' = Unset
  /\ UNCHANGED <<inputs, error, file, written>>

Next ==
  \/ StartResKey
  \/ SkipInfoColumn
  \/ ProcessColumn
  \/ LookupFails
  \/ FinishResKey
  \/ DedupSources
  \/ Merge
  \/ Write
  \/ CallAgain

Spec == Init /\ [][Next]_vars

\* ------------------------------------------------------------- properties
Residential1Pv == <<"DE", "KN", "residential1", "pv">>

DefaultDescription == T("Energy in kWh")

\* The non-info columns of a table, in order.
DataColumns(cols) == SelectSeq(cols, LAMBDA c : c[1] \notin InfoValues)

\* The household and feed header values of a column, and the name they form.
HouseholdOf(c) == c[4]
FeedOf(c) == c[5]
NameOf(c) == HouseholdOf(c) \o FeedOf(c)

\* A column with a project, region or type code missing from its lookup table.
Unresolved(c) ==
  \/ c[1] \notin DOMAIN web_template
  \/ c[2] \notin DOMAIN region_template
  \/ c[3] \notin DOMAIN type_template

TableColumns(n) == {data_sets[n].columns[m] : m \in 1..Len(data_sets[n].columns)}

InputColumns == UNION {TableColumns(n) : n \in 1..Len(data_sets)}

HasUnresolved == \E c \in InputColumns : c[1] \notin InfoValues /\ Unresolved(c)

NoDataColumn == \A c \in InputColumns : c[1] \in InfoValues

\* The schema the document holds for the n-th resolution key.
SchemaOf(doc, n) ==
  LET sch == doc.schemas.value
  IN  sch[CHOOSE m \in 1..Len(sch) : sch[m].key = data_sets[n].res_key].value

\* The fields of a schema after the three fixed ones.
ColumnFields(schema) == SubSeq(schema.fields, 4, Len(schema.fields))

Count(seq, P(_)) == Cardinality({m \in 1..Len(seq) : P(seq[m])})

\* C1: when make_json completes, the document holds, for every resolution
\* key of the input, exactly one resource descriptor whose schema and path
\* are built from the key and exactly one entry of schemas keyed by it, and
\* resources has 1 + (number of resolution keys) entries.
C1_OnePerResolutionKey ==
  pc = "done" =>
    /\ Len(metadata.resources) = 1 + Len(data_sets)
    /\ \A n \in 1..Len(data_sets) :
         LET k == data_sets[n].res_key
         IN  /\ Count(metadata.resources,
                      LAMBDA r : /\ "schema" \in DOMAIN r
                                 /\ r.schema = k
                                 /\ r.path = <<"household", "data">> \o k \o T("singleindex.csv")) = 1
             /\ Count(metadata.schemas.value, LAMBDA e : e.key = k) = 1

C1_Witness == pc = "done" /\ Len(data_sets) = 2

\* C2 as stated: for every non-info column the schema of the table's
\* resolution key holds a field named <household>_<feed>, and that name
\* appears exactly once in the schema's field list; info columns add no field.
C2_NameExactlyOnce ==
  pc = "done" =>
    \A n \in 1..Len(data_sets) :
      LET fields == SchemaOf(metadata, n).fields
          data == DataColumns(data_sets[n].columns)
      IN  /\ \A m \in 1..Len(data) :
               Count(fields, LAMBDA f : f.name = NameOf(data[m])) = 1
          /\ Len(fields) = 3 + Len(data)

\* C2 amended: after the three fixed fields the schema holds one field per
\* non-info column, so the name <household>_<feed> of a non-info column
\* appears there once for every non-info column of the table that formats
\* to that name (at least once; exactly once when no other one does); info
\* columns add no field.
C2_NameOncePerColumn ==
  pc = "done" =>
    \A n \in 1..Len(data_sets) :
      LET fields == ColumnFields(SchemaOf(metadata, n))
          data == DataColumns(data_sets[n].columns)
      IN  /\ \A m \in 1..Len(data) :
               /\ Count(fields, LAMBDA f : f.name = NameOf(data[m])) >= 1
               /\ Count(fields, LAMBDA f : f.name = NameOf(data[m]))
                    = Count(data, LAMBDA c : NameOf(c) = NameOf(data[m]))
          /\ Len(fields) = Len(data)

C2_Witness ==
  /\ pc = "done"
  /\ \E n \in 1..Len(data_sets) : data_sets[n].columns = <<PvCol, SplitCol>>
  /\ \E n \in 1..Len(data_sets) : data_sets[n].columns = <<InfoCol, PvCol>>

\* C3: after make_json completes, no two entries of sources are identical
\* in project, web and type.
C3_SourcesDistinct ==
  pc = "done" =>
    \A a, b \in 1..Len(metadata.sources) :
      a # b =>
        \/ metadata.sources[a].project # metadata.sources[b].project
        \/ metadata.sources[a].web # metadata.sources[b].web
        \/ metadata.sources[a].type # metadata.sources[b].type

C3_Witness == pc = "done" /\ Len(data_sets) = 2 /\ Len(source_list) >= 3

\* C4: a non-info column whose feed code is absent from the description
\* table does not abort the call and its field carries "Energy in kWh"; a
\* feed code present in the table yields the table's description.  An abort
\* with a missing key is always due to a project, region or type code.
C4_DefaultDescription ==
  /\ pc = "done" =>
       \A n \in 1..Len(data_sets) :
         LET fields == ColumnFields(SchemaOf(metadata, n))
             data == DataColumns(data_sets[n].columns)
         IN  \A m \in 1..Len(data) :
               /\ m <= Len(fields)
               /\ fields[m].description =
                    IF FeedOf(data[m]) \in DOMAIN descriptions_template
                      THEN descriptions_template[FeedOf(data[m])]
                      ELSE DefaultDescription
  /\ (pc = "aborted" /\ error = "KeyError") =>
       Unresolved(data_sets[i].columns[j + 1])

C4_Witness ==
  /\ pc = "done"
  /\ \E c \in InputColumns :
       /\ c[1] \notin InfoValues
       /\ FeedOf(c) \notin DOMAIN descriptions_template

\* C5: with a non-info column, at any position, whose project, region or
\* type code is missing from its lookup table, the call ends only by
\* aborting with a missing-key failure and datapackage.json stays as it was;
\* the file changes only in the step that writes the complete document.
C5_AbortWritesNothing ==
  /\ HasUnresolved =>
       /\ pc \notin {"merge", "write", "done"}
       /\ pc = "aborted" => error = "KeyError"
       /\ pc # "aborted" => ENABLED Next
       /\ file = file_at_start
       /\ written = <<>>
  /\ pc = "aborted" => file = file_at_start
  /\ file # file_at_start =>
       /\ pc = "done"
       /\ file = [exists |-> TRUE, content |-> <<JsonDumps(metadata)>>]
       /\ Len(metadata.resources) = 1 + Len(data_sets)
       /\ Len(metadata.schemas.value) = Len(data_sets)

C5_Witness ==
  /\ pc = "aborted"
  /\ error = "KeyError"
  /\ i = 2
  /\ j >= 1
  /\ file.exists

\* Two file contents that differ at most in the order of sources.
SameButSourceOrder(f, g) ==
  /\ f.exists /\ g.exists
  /\ Len(f.content) = 1 /\ Len(g.content) = 1
  /\ f.content[1].indent = g.content[1].indent
  /\ LET d == f.content[1].value
         e == g.content[1].value
     IN  /\ [d EXCEPT !.sources = <<>>] = [e EXCEPT !.sources = <<>>]
         /\ Len(d.sources) = Len(e.sources)
         /\ {d.sources[n] : n \in 1..Len(d.sources)}
              = {e.sources[n] : n \in 1..Len(e.sources)}

\* C6: calls of make_json with the same arguments leave the same document
\* in the file, up to the order of sources, whatever the file held before:
\* each call overwrites the file with its one document.
C6_SameDocumentAgain ==
  /\ \A a, b \in 1..Len(written) : SameButSourceOrder(written[a], written[b])
  /\ pc = "done" =>
       /\ file = written[Len(written)]
       /\ file.content = <<JsonDumps(metadata)>>

C6_Witness == pc = "done" /\ run = 2 /\ Len(written) = 2 /\ Len(source_list) >= 2

\* The dataset of C7: one resolution key, an info column and the pv column.
Synthetic == <<[res_key |-> T("15min"), columns |-> <<InfoCol, PvCol>>]>>

\* C7: on the synthetic dataset make_json completes and the schema for
\* "15min" holds a field named DE_KN_residential1_pv described as
\* "Total Photovoltaic energy generation in kWh".
C7_SyntheticPvField ==
  data_sets = Synthetic =>
    /\ pc # "aborted"
    /\ pc # "done" => ENABLED Next
    /\ pc = "done" =>
         \E e \in {metadata.schemas.value[m] : m \in 1..Len(metadata.schemas.value)} :
           /\ e.key = T("15min")
           /\ \E m \in 1..Len(e.value.fields) :
                /\ e.value.fields[m].name = Residential1Pv
                /\ e.value.fields[m].description =
                     T("Total Photovoltaic energy generation in kWh")

C7_Witness == data_sets = Synthetic /\ pc = "done"

\* The source triple the lookup tables give for a column.
TripleOf(c) ==
  [project |-> c[1], web |-> web_template[c[1]], type |-> type_template[c[3]]]

\* The fields of all schemas that come from columns.
AllColumnFields(doc) ==
  UNION {{ColumnFields(doc.schemas.value[m].value)[p] :
            p \in 1..Len(ColumnFields(doc.schemas.value[m].value))} :
         m \in 1..Len(doc.schemas.value)}

\* C8: after make_json completes, sources holds exactly the source triples
\* of the emitted fields, and the triple of a field is the project code of
\* its column with the web and type the lookup tables give.
C8_SourcesAreFieldSources ==
  pc = "done" =>
    /\ {metadata.sources[n] : n \in 1..Len(metadata.sources)}
         = {f.source : f \in AllColumnFields(metadata)}
    /\ \A n \in 1..Len(data_sets) :
         LET fields == ColumnFields(SchemaOf(metadata, n))
             data == DataColumns(data_sets[n].columns)
         IN  \A m \in 1..Len(data) :
               /\ m <= Len(fields)
               /\ fields[m].source = TripleOf(data[m])
               /\ \E p \in 1..Len(metadata.sources) :
                    metadata.sources[p] = TripleOf(data[m])

C8_Witness ==
  /\ pc = "done"
  /\ Cardinality(AllColumnFields(metadata)) >= 2
  /\ Len(metadata.sources) = 1

\* C9: resources starts with the xlsx entry, followed by the descriptors of
\* the resolution keys in iteration order; every schema's field list starts
\* with the utc, cet and marker fields, followed by one field per non-info
\* column in column order.
C9_IterationOrder ==
  pc = "done" =>
    /\ metadata.resources[1].path = <<"time", "series.xlsx">>
    /\ "schema" \notin DOMAIN metadata.resources[1]
    /\ \A n \in 1..Len(data_sets) :
         /\ n + 1 <= Len(metadata.resources)
         /\ "schema" \in DOMAIN metadata.resources[n + 1]
         /\ metadata.resources[n + 1].schema = data_sets[n].res_key
         /\ LET schema == SchemaOf(metadata, n)
                data == DataColumns(data_sets[n].columns)
            IN  /\ Len(schema.fields) = 3 + Len(data)
                /\ schema.fields[1].name = InfoCols.utc
                /\ schema.fields[2].name = InfoCols.cet
                /\ schema.fields[3].name = InfoCols.marker
                /\ \A m \in 1..Len(data) :
                     /\ schema.fields[3 + m].name = NameOf(data[m])
                     /\ schema.fields[3 + m].opsd_properties.Household = HouseholdOf(data[m])
                     /\ schema.fields[3 + m].opsd_properties.Feed = FeedOf(data[m])

C9_Witness ==
  /\ pc = "done"
  /\ Len(data_sets) = 2
  /\ data_sets[1].res_key = T("60min")
  /\ data_sets[2].columns = <<SplitCol, PvCol>>

\* C10: when no table has a non-info column, source_list stays empty, its
\* parse is None, and the call aborts in the deduplication step: nothing is
\* merged and no file is written.
C10_NoDataColumnAborts ==
  NoDataColumn =>
    /\ pc \notin {"merge", "write", "done"}
    /\ source_list = <<>>
    /\ metadata = Unset
    /\ file = file_at_start
    /\ written = <<>>
    /\ pc = "aborted" => (error = "TypeError" /\ i = Len(data_sets))
    /\ pc # "aborted" => ENABLED Next

C10_Witness ==
  /\ pc = "aborted"
  /\ error = "TypeError"
  /\ Len(data_sets) = 2
  /\ InfoCol \in InputColumns
====
